---- MODULE Spec2Model ----
(***************************************************************************)
(* Model of cpp17_tuple.cpp: a fixed-size heterogeneous tuple built as a   *)
(* chain of sized_tuple levels, initialised from position<Index,Type>      *)
(* keyword arguments, with get<Idx>() and set<Idx>().                      *)
(*                                                                         *)
(* A level of the inheritance chain is named by its depth T: T = 1 is the  *)
(* complete tuple, super(T) = T + 1 is its base, and Anchor is the empty   *)
(* sized_tuple<NDim> that ends the chain.  Each level below the anchor     *)
(* stores one m_value of type First(T).                                    *)
(*                                                                         *)
(* The calling code owns a few storage locations: named variables          *)
(* (lvalues) and temporaries (destroyed at the end of the full expression  *)
(* that uses them).  A position holds a reference to one of them.          *)
(***************************************************************************)
EXTENDS Integers, Sequences, FiniteSets, TLC

\* ---------------------------------------------------------------- bounds
NDim    == 2      \* number of declared slots
MaxArgs == 3      \* longest constructor argument list

\* ------------------------------------------------- element types, values
Kinds == {"scalar", "uptr"}     \* trivially copyable / std::unique_ptr

\* storage owned by the calling code
Vars  == {1, 2}                 \* named variables  (storage2, p)
Temps == {4}                    \* temporaries      (make_unique(...))
Loc   == Vars \cup Temps

LocKind(l) == IF l % 2 = 1 THEN "scalar" ELSE "uptr"

\* what a location holds when the program starts: a scalar variable holds
\* the number l, a unique_ptr holds the heap object l
InitialValue(l) == l

\* the heap objects created by make_unique
Obj == {l \in Loc : LocKind(l) = "uptr"}

\* First{}: value-initialisation (0, false, nullptr)
DefaultValue(kind) == 0

\* position<Index, Type>: a slot index and a reference to a value; the
\* index NDim + 1 stands for the indices that name no slot
Position == [index : 1..(NDim + 1), value : Loc]

ArgLists == UNION {[1..n -> Position] : n \in 0..MaxArgs}

VARIABLES
    pc,        \* "declared", "live", "destroyed", "crashed"
    Types,     \* the declared element types, Types[T] = First of level T
    m_value,   \* m_value[T]: the member of chain level T
    env,       \* contents of the caller's storage locations
    alive,     \* locations whose lifetime has not ended
    released,  \* released[o]: how many times heap object o was deleted
    op,        \* the last operation: "none", "construct", "get", "set", ...
    x,         \* the argument list of the last constructor call
    Idx,       \* the index of the last get/set
    arg_,      \* the location passed to the last set
    ret,       \* what the last get yielded
    pre,       \* m_value and env as they were before the last operation
    consumed,  \* consumed[k]: times x[k].value was moved out by the last ctor
    order,     \* the slot indices in the order the last ctor initialised them
    given,     \* given[i]: the value last installed for slot i (ctor or set)
    wasSet,    \* slots that were set since construction
    again      \* the last two operations were get<Idx>() with the same Idx

vars == <<pc, Types, m_value, env, alive, released, op, x, Idx, arg_, ret,
          pre, consumed, order, given, wasSet, again>>

\* ------------------------------------------------------ the chain of types
Anchor == Len(Types) + 1

super(T) == T + 1

\* sizeof...(Types) at level T: the types after First
SizeofTypes(T) == Len(Types) - T

\* s_index of the generic level and of the anchor
s_index(T) == IF T = Anchor THEN NDim + 1 ELSE NDim - SizeofTypes(T)

First(T) == Types[T]

\* access with its recursion ending at Idx == 0 instead of Idx == 1
RECURSIVE accessFromZero(_, _)
accessFromZero(T, I) ==
    IF I = 0 THEN T
    ELSE IF T = Anchor THEN 0
    ELSE accessFromZero(super(T), I - 1)

\* access<T, Idx>::type; 0 when the recursion needs a ::super that the
\* anchor does not have (ill-formed)
RECURSIVE access(_, _)
access(T, I) ==
    IF I = 1 THEN T
    ELSE IF T = Anchor THEN 0
    ELSE access(super(T), I - 1)

\* the level whose get<Idx>() returns: the first one with Idx == s_index,
\* or the anchor
RECURSIVE get(_, _)
get(T, I) ==
    IF T = Anchor THEN Anchor
    ELSE IF I = s_index(T) THEN T
    ELSE get(super(T), I)

\* the value tuple.get<I>() refers to; the anchor returns the int 0
GetVal(m, I) ==
    LET T == get(1, I) IN IF T = Anchor THEN 0 ELSE m[T]

\* --------------------------------------------------------- moving values
\* a copy in place of a move: the source keeps its pointer
MovedFromCopy(e, l) == e

\* the source of a move: a unique_ptr is left null, a scalar is unchanged
MovedFrom(e, l) ==
    IF LocKind(l) = "uptr" THEN [e EXCEPT ![l] = 0] ELSE e

\* the comparison written as X::index <= N
MatchesUpTo(X, N) == X.index <= N

\* if constexpr( X::index == N )
Matches(X, N) == X.index = N

\* initialize whose else branch drops the rest of the arguments
initializeHeadOnly(N, xs, k) ==
    IF k > Len(xs) THEN 0
    ELSE IF Matches(xs[k], N) THEN k
    ELSE 0

\* initialize that scans the rest before looking at x: the last match wins
RECURSIVE initializeLast(_, _, _)
initializeLast(N, xs, k) ==
    IF k > Len(xs) THEN 0
    ELSE LET r == initializeLast(N, xs, k + 1)
         IN IF r # 0 THEN r
            ELSE IF Matches(xs[k], N) THEN k
            ELSE 0

\* initialize<N, First>( x... ): the position of the argument whose value
\* is moved out, 0 when the recursion ends in First{}
RECURSIVE initialize(_, _, _)
initialize(N, xs, k) ==
    IF k > Len(xs) THEN 0
    ELSE IF Matches(xs[k], N) THEN k
    ELSE initialize(N, xs, k + 1)

\* a constructor that initialises m_value before its base
RECURSIVE sized_tupleMemberFirst(_, _, _)
sized_tupleMemberFirst(T, xs, st) ==
    IF T = Anchor THEN st
    ELSE
      LET k == initialize(s_index(T), xs, 1)
          v == IF k = 0 THEN DefaultValue(First(T)) ELSE st.env[xs[k].value]
      IN sized_tupleMemberFirst(super(T), xs,
           [ m        |-> [st.m EXCEPT ![T] = v],
             env      |-> IF k = 0 THEN st.env
                          ELSE MovedFrom(st.env, xs[k].value),
             consumed |-> IF k = 0 THEN st.consumed
                          ELSE [st.consumed EXCEPT ![k] = @ + 1],
             order    |-> Append(st.order, s_index(T)),
             given    |-> [st.given EXCEPT ![s_index(T)] = v] ])

\* the constructor of level T: the base first, then m_value
RECURSIVE sized_tuple(_, _, _)
sized_tuple(T, xs, st) ==
    IF T = Anchor THEN st
    ELSE
      LET s == sized_tuple(super(T), xs, st)
          k == initialize(s_index(T), xs, 1)
          v == IF k = 0 THEN DefaultValue(First(T)) ELSE s.env[xs[k].value]
      IN [ m        |-> [s.m EXCEPT ![T] = v],
           env      |-> IF k = 0 THEN s.env ELSE MovedFrom(s.env, xs[k].value),
           consumed |-> IF k = 0 THEN s.consumed
                        ELSE [s.consumed EXCEPT ![k] = @ + 1],
           order    |-> Append(s.order, s_index(T)),
           given    |-> [s.given EXCEPT ![s_index(T)] = v] ]

\* m_value( initialize<...>(...) ) compiles when the argument it selects
\* converts to First
RECURSIVE WellFormed(_, _)
WellFormed(T, xs) ==
    IF T = Anchor THEN TRUE
    ELSE LET k == initialize(s_index(T), xs, 1)
         IN /\ (k # 0 => LocKind(xs[k].value) = First(T))
            /\ WellFormed(super(T), xs)

\* end of a full expression: the temporaries it used are destroyed
Referenced(xs) == {xs[k].value : k \in 1..Len(xs)}

Delete(rel, e, ls) ==
    [o \in Obj |-> rel[o] + Cardinality({l \in ls : LocKind(l) = "uptr" /\ e[l] = o})]

\* ------------------------------------------------------------------ Init
Init ==
    /\ pc = "declared"
    /\ Types \in [1..NDim -> Kinds]
    /\ m_value = [T \in 1..NDim |-> 0]
    /\ env = [l \in Loc |-> InitialValue(l)]
    /\ alive = Loc
    /\ released = [o \in Obj |-> 0]
    /\ op = "none"
    /\ x = <<>>
    /\ Idx = 0
    /\ arg_ = 0
    /\ ret = 0
    /\ pre = [m |-> [T \in 1..NDim |-> 0], env |-> [l \in Loc |-> InitialValue(l)]]
    /\ consumed = <<>>
    /\ order = <<>>
    /\ given = [i \in 1..NDim |-> 0]
    /\ wasSet = {}
    /\ again = FALSE

\* --------------------------------------------------------------- actions
\* tuple<Types...> t( x... )
Construct ==
    /\ pc = "declared"
    /\ \E xs \in ArgLists :
        /\ Referenced(xs) \subseteq alive
        /\ WellFormed(1, xs)
        /\ LET st == sized_tuple(1, xs,
                       [ m |-> m_value, env |-> env,
                         consumed |-> [k \in 1..Len(xs) |-> 0],
                         order |-> <<>>, given |-> given ])
               dead == Referenced(xs) \cap Temps
           IN /\ m_value' = st.m
              /\ env' = st.env
              /\ consumed' = st.consumed
              /\ order' = st.order
              /\ given' = st.given
              /\ released' = Delete(released, st.env, dead)
              /\ alive' = alive \ dead
              /\ x' = xs
    /\ pc' = "live"
    /\ op' = "construct"
    /\ pre' = [m |-> m_value, env |-> env]
    /\ Idx' = 0 /\ arg_' = 0 /\ ret' = 0
    /\ again' = FALSE
    /\ UNCHANGED <<Types, wasSet>>

\* what reading the reference returned by the anchor's get can yield: it
\* refers to the temporary int 0 of a frame that has already returned, so
\* the read yields some int or traps (pc = "crashed")
Stale == {0, 1}

\* a get that really moves the member out
GetEffectMovesOut(m, T) == [m EXCEPT ![T] = 0]

\* get() is a const member: std::move( m_value ) only casts to
\* const First&&, the member itself is untouched
GetEffect(m, T) == m

\* set assigning the unqualified m_value of the complete tuple
AssignUnqualified(m, T, v) == [m EXCEPT ![1] = v]

\* access<sized_tuple, Idx>::type::m_value = std::move( arg_ )
Assign(m, T, v) == [m EXCEPT ![T] = v]

\* unique_ptr move assignment deletes the object the target owned
DeleteOld(rel, kind, old) ==
    IF kind = "uptr" /\ old # 0 THEN [rel EXCEPT ![old] = @ + 1] ELSE rel

\* t.get<I>()
Get ==
    /\ pc = "live"
    /\ \E I \in 0..(NDim + 1) :
        LET T == get(1, I)
        IN /\ Idx' = I
           /\ again' = (op = "get" /\ Idx = I)
           /\ IF T = Anchor
                THEN /\ \/ ret' \in Stale /\ pc' = pc
                        \/ ret' = 0 /\ pc' = "crashed"
                     /\ m_value' = m_value
                ELSE /\ ret' = m_value[T]
                     /\ m_value' = GetEffect(m_value, T)
                     /\ pc' = pc
    /\ op' = "get"
    /\ pre' = [m |-> m_value, env |-> env]
    /\ x' = <<>> /\ consumed' = <<>> /\ order' = <<>> /\ arg_' = 0
    /\ UNCHANGED <<Types, env, alive, released, given, wasSet>>

\* t.set<I>( l )
Set ==
    /\ pc = "live"
    /\ \E I \in 0..(NDim + 1), l \in alive :
        LET T == access(1, I)
        IN /\ T # 0 /\ T # Anchor            \* the anchor has no m_value
           /\ LocKind(l) = First(T)
           /\ LET e    == MovedFrom(env, l)
                  dead == {l} \cap Temps
              IN /\ m_value' = Assign(m_value, T, env[l])
                 /\ env' = e
                 /\ released' = Delete(DeleteOld(released, First(T), m_value[T]),
                                       e, dead)
                 /\ alive' = alive \ dead
           /\ Idx' = I
           /\ arg_' = l
           /\ given' = [given EXCEPT ![I] = env[l]]
           /\ wasSet' = wasSet \cup {I}
    /\ op' = "set"
    /\ pre' = [m |-> m_value, env |-> env]
    /\ x' = <<>> /\ consumed' = <<>> /\ order' = <<>> /\ ret' = 0
    /\ again' = FALSE
    /\ UNCHANGED <<pc, Types>>

\* the tuple goes out of scope: every m_value is destroyed
Destroy ==
    /\ pc = "live"
    /\ pc' = "destroyed"
    /\ released' = [o \in Obj |-> released[o] +
                      Cardinality({T \in 1..Len(Types) :
                                     First(T) = "uptr" /\ m_value[T] = o})]
    /\ op' = "destroy"
    /\ pre' = [m |-> m_value, env |-> env]
    /\ x' = <<>> /\ consumed' = <<>> /\ order' = <<>>
    /\ Idx' = 0 /\ arg_' = 0 /\ ret' = 0
    /\ again' = FALSE
    /\ UNCHANGED <<Types, m_value, env, alive, given, wasSet>>

\* the caller's named variables go out of scope
ScopeExit ==
    /\ pc \in {"live", "destroyed"}
    /\ Vars \cap alive # {}
    /\ released' = Delete(released, env, Vars \cap alive)
    /\ alive' = alive \ Vars
    /\ op' = "exit"
    /\ pre' = [m |-> m_value, env |-> env]
    /\ x' = <<>> /\ consumed' = <<>> /\ order' = <<>>
    /\ Idx' = 0 /\ arg_' = 0 /\ ret' = 0
    /\ again' = FALSE
    /\ UNCHANGED <<pc, Types, m_value, env, given, wasSet>>

Next == Construct \/ Get \/ Set \/ Destroy \/ ScopeExit

Spec == Init /\ [][Next]_vars

\* ======================================================= properties
Slots == 1..NDim

InRange(xs) == \A k \in 1..Len(xs) : xs[k].index \in Slots

\* no two arguments target the same slot
DistinctSlots(xs) ==
    \A j, k \in 1..Len(xs) :
        (j # k /\ xs[j].index \in Slots) => xs[j].index # xs[k].index

Targets(xs, i) == {k \in 1..Len(xs) : xs[k].index = i}

\* C1: after Construct from in-range initializers, at most one per slot,
\* every slot with an initializer holds the value supplied for it (the
\* value its reference denoted when the constructor was called) and every
\* other slot holds the default value of its type.
C1_SuppliedOrDefault ==
    (op = "construct" /\ InRange(x) /\ DistinctSlots(x)) =>
        \A i \in Slots :
            IF Targets(x, i) = {}
            THEN GetVal(m_value, i) = DefaultValue(Types[i])
            ELSE \A k \in Targets(x, i) :
                    GetVal(m_value, i) = pre.env[x[k].value]

\* C2: for initializers targeting distinct slots, constructing from any
\* permutation of the argument list gives the same slot values.
Orderings(n) ==
    {p \in [1..n -> 1..n] : \A i, j \in 1..n : i # j => p[i] # p[j]}

Permute(xs, p) == [k \in 1..Len(xs) |-> xs[p[k]]]

Constructed(xs) ==
    sized_tuple(1, xs, [ m |-> pre.m, env |-> pre.env,
                         consumed |-> [k \in 1..Len(xs) |-> 0],
                         order |-> <<>>,
                         given |-> [i \in Slots |-> 0] ])

C2_OrderIndependent ==
    (op = "construct" /\ DistinctSlots(x)) =>
        \A p \in Orderings(Len(x)) :
            /\ WellFormed(1, Permute(x, p))
            /\ Constructed(Permute(x, p)).m = m_value

C2_Witness ==
    /\ op = "construct" /\ Len(x) = 3 /\ DistinctSlots(x)
    /\ x[1].index = 2 /\ x[3].index = 1
    /\ GetVal(m_value, 1) # 0 /\ GetVal(m_value, 2) # 0

\* C3: while the tuple lives, get<i>() refers to the value installed by the
\* most recent set<i>, or by construction if slot i was never set; set<i>
\* and get<i> address the same slot.
C3_GetReflectsLast ==
    /\ pc = "live" => \A i \in Slots : GetVal(m_value, i) = given[i]
    /\ (op = "get" /\ Idx \in Slots) => ret = given[Idx]

C3_Witness ==
    /\ op = "get" /\ Idx \in wasSet /\ ret # 0 /\ ret = given[Idx]
    /\ ret # GetVal(Constructed(<<>>).m, Idx)

\* C4: every heap object has exactly one owner until it is released, and it
\* is released exactly once: by the set that overwrites the slot holding
\* it, or by the destruction of whatever holds it last.
Owners(o) ==
    {<<"slot", T>> : T \in {U \in 1..Len(Types) :
          pc \in {"live", "crashed"} /\ First(U) = "uptr" /\ m_value[U] = o}}
    \cup
    {<<"loc", l>> : l \in {k \in alive : LocKind(k) = "uptr" /\ env[k] = o}}

C4_SingleOwnerReleasedOnce ==
    \A o \in Obj : released[o] + Cardinality(Owners(o)) = 1

C4_Witness ==
    /\ op = "set" /\ Idx \in Slots /\ Types[Idx] = "uptr"
    /\ GetVal(pre.m, Idx) \in Obj
    /\ released[GetVal(pre.m, Idx)] = 1
    /\ GetVal(m_value, Idx) \in Obj
    /\ Cardinality(Owners(GetVal(m_value, Idx))) = 1

\* C5: get with an index outside [1..N] is rejected when the program is
\* compiled, so no get with such an index ever runs.
C5_GetOutOfRangeRejected == op = "get" => Idx \in Slots

\* C6: a constructor call with an initializer whose index is outside [1..N]
\* is rejected when the program is compiled, so no tuple is ever built from
\* such an argument list.
C6_OutOfRangeInitializerRejected == op = "construct" => InRange(x)

\* C7: a named value of the caller passed to Construct (through a position)
\* or to Set is neither copied nor moved from: it is unchanged afterwards.
C7_CallerValueUnchanged ==
    op \in {"construct", "set"} => \A l \in Vars : env[l] = pre.env[l]

\* C8: set<i> replaces only slot i: every other slot keeps its value, and
\* the number and the types of the slots do not change.
C8_SetFrame ==
    [][op' = "set" =>
         /\ \A j \in Slots \ {Idx'} : GetVal(m_value', j) = GetVal(m_value, j)
         /\ Types' = Types
         /\ DOMAIN m_value' = DOMAIN m_value]_vars

C8_Witness ==
    /\ op = "set" /\ Idx = 2
    /\ GetVal(m_value, 2) # GetVal(pre.m, 2)
    /\ GetVal(m_value, 1) # 0 /\ GetVal(m_value, 1) = GetVal(pre.m, 1)

C10_ConsumedAtMostOnce ==
    op = "construct" => \A k \in 1..Len(x) : consumed[k] <= 1

C10_Witness ==
    /\ op = "construct" /\ Len(x) = 3
    /\ \E j, k \in 1..3 : j < k /\ x[j].index = x[k].index
                          /\ x[j].index \in Slots
                          /\ consumed[j] = 1 /\ consumed[k] = 0
    /\ \E k \in 1..3 : x[k].index \notin Slots /\ consumed[k] = 0

\* C11: when several initializers target the same slot, the slot is
\* initialised from the first of them in argument order and the later ones
\* have no effect: they are never moved out, the values they refer to are
\* untouched, and the tuple and the caller's values are what the same call
\* without them gives.
Later(xs) ==
    {k \in 1..Len(xs) : \E j \in 1..(k - 1) : xs[j].index = xs[k].index}

RECURSIVE Without(_, _, _)
Without(xs, K, k) ==
    IF k > Len(xs) THEN <<>>
    ELSE (IF k \in K THEN <<>> ELSE <<xs[k]>>) \o Without(xs, K, k + 1)

\* no other argument refers to the value argument k refers to
Alone(xs, k) == \A j \in 1..Len(xs) : j # k => xs[j].value # xs[k].value

C11_FirstWins ==
    op = "construct" =>
        /\ \A i \in Slots : Targets(x, i) # {} =>
             LET f == CHOOSE k \in Targets(x, i) :
                          \A j \in Targets(x, i) : k <= j
             IN /\ consumed[f] = 1
                /\ Alone(x, f) => GetVal(m_value, i) = pre.env[x[f].value]
        /\ \A k \in Later(x) :
             /\ consumed[k] = 0
             /\ Alone(x, k) => env[x[k].value] = pre.env[x[k].value]
        /\ LET c == Constructed(Without(x, Later(x), 1))
           IN c.m = m_value /\ c.env = env

C11_Witness ==
    /\ op = "construct" /\ Len(x) >= 2
    /\ x[1].index = x[2].index /\ x[1].index \in Slots
    /\ x[1].value # x[2].value
    /\ LocKind(x[1].value) = "uptr" /\ LocKind(x[2].value) = "uptr"
    /\ GetVal(m_value, x[1].index) = pre.env[x[1].value]
    /\ GetVal(m_value, x[1].index) \in Obj
    /\ consumed[1] = 1 /\ consumed[2] = 0

\* C12: the constructor initialises the slots in one fixed order, slot N
\* first and slot 1 last, whatever the arguments; so of two move-only slots
\* whose initializers refer to the same caller value, the highest slot
\* takes the object and the lower ones are left null.
C12_LastSlotFirst ==
    op = "construct" =>
        /\ order = [k \in 1..NDim |-> NDim + 1 - k]
        /\ \A j, k \in 1..Len(x) :
             ( /\ x[j].value = x[k].value /\ LocKind(x[j].value) = "uptr"
               /\ x[j].index < x[k].index /\ x[k].index \in Slots
               /\ consumed[j] = 1 /\ consumed[k] = 1
               /\ \A l \in 1..Len(x) :
                    (x[l].value = x[k].value /\ consumed[l] = 1)
                        => x[l].index <= x[k].index )
             => /\ GetVal(m_value, x[k].index) = pre.env[x[k].value]
                /\ GetVal(m_value, x[j].index) = 0

C12_Witness ==
    /\ op = "construct" /\ Len(order) = NDim /\ order[1] = NDim
    /\ order[NDim] = 1
    /\ \E j, k \in 1..Len(x) :
         /\ x[j].value = x[k].value /\ x[j].index = 1 /\ x[k].index = NDim
         /\ GetVal(m_value, NDim) \in Obj /\ GetVal(m_value, 1) = 0
====
